---- MODULE Spec2Model ----
(***************************************************************************)
(* grapesjs-react-renderer: the plugin that renders React components       *)
(* inside GrapesJS canvas nodes.                                           *)
(*                                                                         *)
(*   src/unnamed/part_001  index.ts     the plugin, the view hooks          *)
(*   src/unnamed/part_000  helpers.ts   parseJsonTrait, createWrapperMapper *)
(*                                      provider helpers (from line 79 on)  *)
(*   src/src/factories.ts               descriptor factories                *)
(*                                                                         *)
(* A JavaScript value is a record [t, v]: t is its kind, v its canonical    *)
(* text.  A plain object is a function from its own keys to values.         *)
(***************************************************************************)
EXTENDS Integers, Sequences, FiniteSets, TLC

VARIABLES
    options,    \* the ReactComponentsPluginOptions the plugin was created with
    host,       \* per node: the shape of the view object the host hands to the hooks
    attrs,      \* per node: the attributes model.getAttributes() returns
    subs,       \* per node: number of 'change:attributes' subscriptions of render
    rootRef,    \* per node: view._root, 0 for undefined, else an index into roots
    roots,      \* per node: every root createRoot(view.el) returned, in creation order
    last        \* what the most recent hook call (or attribute change) did, and on which node

vars == <<options, host, attrs, subs, rootRef, roots, last>>

(***************************************************************************)
(* Bounds of the model.                                                    *)
(***************************************************************************)
MaxRoots == 2       \* roots ever created on one canvas node
MaxSubs == 2        \* init calls that subscribe render on one view
MaxProviders == 3   \* length of the providers option

Nodes == {"n1", "n2"}

(***************************************************************************)
(* JavaScript values.                                                      *)
(***************************************************************************)
Str(s) == [t |-> "string", v |-> s]
Num(s) == [t |-> "number", v |-> s]
Bool(s) == [t |-> "boolean", v |-> s]
Undef == [t |-> "undefined", v |-> ""]
Null == [t |-> "null", v |-> ""]
\* an array or object (anything typeof reports as 'object' and is not null)
Obj(s) == [t |-> "object", v |-> s]

EmptyObject == [k \in {} |-> Undef]

\* { ...base, ...over }
Overlay(base, over) ==
    [k \in DOMAIN base \cup DOMAIN over |->
        IF k \in DOMAIN over THEN over[k] ELSE base[k]]

\* the own entries of obj whose key is in keys
Restrict(obj, keys) == [k \in DOMAIN obj \cap keys |-> obj[k]]

\* JSON.parse: the texts that are valid JSON and what they decode to; every
\* other text makes JSON.parse throw.
JsonTexts == {"[1]", "{\"a\":1}", "1", "true", "null", "\"x\""}

JsonDecoded(s) ==
    CASE s = "[1]" -> Obj("[1]")
      [] s = "{\"a\":1}" -> Obj("{a:1}")
      [] s = "1" -> Num("1")
      [] s = "true" -> Bool("true")
      [] s = "null" -> Null
      [] s = "\"x\"" -> Str("x")

\* ParseOrKeep with a catch branch that yields null in place of the text
ParseOrKeep_NullOnFailure(value) ==
    IF value.v \in JsonTexts THEN JsonDecoded(value.v) ELSE Null

\* try { JSON.parse(value) } catch { console.warn(...); value }
ParseOrKeep(value) ==
    IF value.v \in JsonTexts THEN JsonDecoded(value.v) ELSE value

parseJsonTrait(value) ==
    IF value.t = "string" THEN ParseOrKeep(value) ELSE value

(***************************************************************************)
(* Component properties: the object handed to React.createElement.  wrap   *)
(* is "" for a flat object, else the single key under which fields sits.   *)
(***************************************************************************)
Flat(obj) == [wrap |-> "", fields |-> obj]
Wrapped(key, obj) == [wrap |-> key, fields |-> obj]


(***************************************************************************)
(* Trait definitions and component descriptors.  One record shape serves   *)
(* all seven trait variants: def is Undef when the trait has no            *)
(* defaultValue, options is empty except for a select trait.               *)
(***************************************************************************)
Trait(type, name, label, def) ==
    [type |-> type, name |-> name, label |-> label, def |-> def, options |-> << >>]

NoMapper ==
    [kind |-> "none", key |-> "", defaults |-> EmptyObject, jsonFields |-> {},
     secondary |-> "none"]

\* a ComponentConfig; hasTraits / hasDefaultProps / mapProps.kind = "none" tell an
\* absent optional field from a present one
ComponentConfig(component, hasTraits, traits, hasDefaultProps, defaultProps, mapProps) ==
    [kind |-> "config", component |-> component,
     hasTraits |-> hasTraits, traits |-> traits,
     hasDefaultProps |-> hasDefaultProps, defaultProps |-> defaultProps,
     mapProps |-> mapProps]

\* a bare function component registered in place of a descriptor
Renderable(fn) ==
    [kind |-> "renderable", component |-> fn,
     hasTraits |-> FALSE, traits |-> << >>,
     hasDefaultProps |-> FALSE, defaultProps |-> EmptyObject,
     mapProps |-> NoMapper]

\* a React element registered in place of a descriptor
RenderableElement(el) ==
    [kind |-> "element", component |-> el,
     hasTraits |-> FALSE, traits |-> << >>,
     hasDefaultProps |-> FALSE, defaultProps |-> EmptyObject,
     mapProps |-> NoMapper]

(***************************************************************************)
(* helpers.ts                                                              *)
(***************************************************************************)
\* the entries of obj whose value is none of the kinds in skip
Present(obj, skip) == Restrict(obj, {k \in DOMAIN obj : obj[k] \notin skip})

\* createWrapperMapper with Object.assign({}, wrapped, defaults): the defaults last
createWrapperMapper_DefaultsWin(wrapperKey, defaults, a) ==
    LET fromDefaults == Present(defaults, {Undef})
        wrapped == Overlay(fromDefaults, Present(a, {Undef, Null}))
        typedWrapped == Overlay(wrapped, defaults)
    IN  Wrapped(wrapperKey, typedWrapped)

createWrapperMapper(wrapperKey, defaults, a) ==
    LET fromDefaults == Present(defaults, {Undef})
        wrapped == Overlay(fromDefaults, Present(a, {Undef, Null}))
        typedWrapped == Overlay(defaults, wrapped)
    IN  Wrapped(wrapperKey, typedWrapped)

mergeDefaults(defaults, a) ==
    Overlay(defaults, Present(a, {Undef, Str("")}))

commonTraits ==
    [title |-> Trait("text", "title", "Title", Undef),
     subtitle |-> Trait("text", "subtitle", "Subtitle", Undef),
     description |-> Trait("textarea", "description", "Description", Undef),
     textColor |-> Trait("color", "textColor", "Text Color", Str("#000000")),
     backgroundColor |-> Trait("color", "backgroundColor", "Background Color", Str("#ffffff")),
     visible |-> Trait("checkbox", "visible", "Visible", Bool("true")),
     disabled |-> Trait("checkbox", "disabled", "Disabled", Bool("false"))]

\* a provider's props: absent (undefined) or an object
NoProps == [defined |-> FALSE, fields |-> EmptyObject]
Props(obj) == [defined |-> TRUE, fields |-> obj]

createProvider(component, props) == [component |-> component, props |-> props]

\* pairs is a sequence of <<component, props>> tuples
createProviderStack(pairs) ==
    [i \in 1..Len(pairs) |-> createProvider(pairs[i][1], pairs[i][2])]

(***************************************************************************)
(* factories.ts                                                            *)
(***************************************************************************)
WrapperMapper(wrapperKey, defaults) ==
    [kind |-> "wrapper", key |-> wrapperKey, defaults |-> defaults,
     jsonFields |-> {}, secondary |-> "none"]

createWrapperComponentConfig(component, wrapperKey, traits, wrapperDefaults, defaultProps) ==
    ComponentConfig(component, TRUE, traits, TRUE, defaultProps,
                    WrapperMapper(wrapperKey, wrapperDefaults))

createUiComponentConfig(component, customTraits, uiComponentDefaults) ==
    ComponentConfig(component, TRUE,
                    <<commonTraits.title, commonTraits.description>> \o customTraits,
                    FALSE, EmptyObject,
                    [kind |-> "ui", key |-> "uiComponent", defaults |-> uiComponentDefaults,
                     jsonFields |-> {}, secondary |-> "none"])

createSimpleComponentConfig(component, traits, defaultProps) ==
    ComponentConfig(component, TRUE, traits, TRUE, defaultProps, NoMapper)

\* secondary names the optional fifth argument: "none" when it is not given
createJsonComponentConfig(component, traits, jsonFields, defaultProps, secondary) ==
    ComponentConfig(component, TRUE, traits, TRUE, defaultProps,
                    [kind |-> "json", key |-> "", defaults |-> EmptyObject,
                     jsonFields |-> jsonFields, secondary |-> secondary])

\* a descriptor written by hand with its own mapProps
CustomMapper(name) ==
    [kind |-> "custom", key |-> "", defaults |-> EmptyObject, jsonFields |-> {},
     secondary |-> name]

\* attrs.title ?? ''
TitleOrEmpty(a) ==
    IF "title" \in DOMAIN a /\ a["title"] \notin {Undef, Null} THEN a["title"] ELSE Str("")

\* String(value) of a primitive
ToText(value) ==
    CASE value.t = "string" -> value
      [] value.t \in {"number", "boolean"} -> Str(value.v)
      [] value.t = "null" -> Str("null")
      [] value.t = "undefined" -> Str("undefined")
      [] OTHER -> Str(value.v)

\* the caller's mapper functions used as inputs: README's
\* (attrs) => ({ title: String(attrs.title ?? '') })
UserMapper(name, a) ==
    Flat([k \in {"title"} |-> ToText(TitleOrEmpty(a))])

\* the mapProps closure of createWrapperComponentConfig
WrapperConfigMapProps(m, a) ==
    LET result == createWrapperMapper(m.key, m.defaults, a)
    IN  Wrapped(m.key, result.fields)

\* the mapProps closure of createUiComponentConfig
UiConfigMapProps(m, a) ==
    LET result == createWrapperMapper("uiComponent", m.defaults, a)
    IN  Wrapped("uiComponent", result.fields)

\* JsonConfigMapProps without the jsonFields.includes(key) test: every text is decoded
JsonConfigMapProps_DecodesAll(m, a) ==
    LET kept == {k \in DOMAIN a : a[k] \notin {Undef, Null}}
        parsed == [k \in kept |-> parseJsonTrait(a[k])]
    IN  IF m.secondary # "none"
        THEN UserMapper(m.secondary, parsed)
        ELSE Flat(Present(parsed, {Undef}))

\* the mapProps closure of createJsonComponentConfig
JsonConfigMapProps(m, a) ==
    LET kept == {k \in DOMAIN a :
                    \/ k \in m.jsonFields /\ a[k].t = "string"
                    \/ a[k] \notin {Undef, Null}}
        parsed == [k \in kept |->
                    IF k \in m.jsonFields /\ a[k].t = "string"
                    THEN parseJsonTrait(a[k]) ELSE a[k]]
    IN  IF m.secondary # "none"
        THEN UserMapper(m.secondary, parsed)
        ELSE Flat(Present(parsed, {Undef}))

\* config.mapProps(attrs)
CallMapProps(m, a) ==
    CASE m.kind = "wrapper" -> WrapperConfigMapProps(m, a)
      [] m.kind = "ui" -> UiConfigMapProps(m, a)
      [] m.kind = "json" -> JsonConfigMapProps(m, a)
      [] m.kind = "custom" -> UserMapper(m.secondary, a)

(***************************************************************************)
(* index.ts: createReactComponentsPlugin.  options.components is the       *)
(* sequence of [name, value] entries in Object.keys order; an absent       *)
(* (or empty) defaultComponent is "".                                      *)
(***************************************************************************)
Entry(name, value) == [name |-> name, value |-> value]

\* Object.keys(components)
Keys(components) == [i \in 1..Len(components) |-> components[i].name]

KeySet(components) == {components[i].name : i \in 1..Len(components)}

\* the name Object.keys(components)[0] or a missing selector evaluates to when there
\* is none: undefined, which as a property key is the text "undefined"
UndefinedName == "undefined"

\* defaultComponent || Object.keys(components)[0]
fallbackName(opts) ==
    IF opts.defaultComponent # "" THEN opts.defaultComponent
    ELSE IF Len(opts.components) > 0 THEN Keys(opts.components)[1]
    ELSE UndefinedName

\* model.defaults.attributes of the react-comp type: component is fallbackName,
\* the value undefined when there is none
DefaultAttributes(opts) ==
    ("data-gjs-type" :> Str("react-comp"))
        @@ ("component" :> IF opts.defaultComponent # "" \/ Len(opts.components) > 0
                           THEN Str(fallbackName(opts)) ELSE Undef)

\* () => comp
Returning(el) == "() => " \o el

\* Normalize with the reusable commonTraits as the default traits
Normalize_CommonTraits(value) ==
    IF value.kind \in {"renderable", "element"}
    THEN [kind |-> "config",
          component |-> IF value.kind = "renderable" THEN value.component
                        ELSE Returning(value.component),
          hasTraits |-> TRUE,
          traits |-> <<commonTraits.title, commonTraits.subtitle, commonTraits.description>>,
          hasDefaultProps |-> FALSE, defaultProps |-> EmptyObject,
          mapProps |-> NoMapper]
    ELSE value

\* one entry of normalizedComponents
Normalize(value) ==
    IF value.kind \in {"renderable", "element"}
    THEN [kind |-> "config",
          component |-> IF value.kind = "renderable" THEN value.component
                        ELSE Returning(value.component),
          hasTraits |-> TRUE,
          traits |-> <<Trait("text", "title", "Title", Undef),
                       Trait("text", "subtitle", "Subtitle", Undef),
                       Trait("text", "description", "Description", Undef)>>,
          hasDefaultProps |-> FALSE, defaultProps |-> EmptyObject,
          mapProps |-> NoMapper]
    ELSE value

normalizedComponents(components) ==
    [i \in 1..Len(components) |->
        Entry(components[i].name, Normalize(components[i].value))]

\* normalizedComponents is an object literal: a name that is no own key still finds
\* what Object.prototype holds under it
ObjectPrototypeKeys ==
    {"constructor", "__proto__", "hasOwnProperty", "isPrototypeOf",
     "propertyIsEnumerable", "toLocaleString", "toString", "valueOf",
     "__defineGetter__", "__defineSetter__", "__lookupGetter__", "__lookupSetter__"}

\* what normalizedComponents[name] is when name is inherited: truthy, and with no
\* component, traits, defaultProps or mapProps of its own
InheritedMember ==
    [kind |-> "inherited", component |-> "undefined",
     hasTraits |-> FALSE, traits |-> << >>,
     hasDefaultProps |-> FALSE, defaultProps |-> EmptyObject,
     mapProps |-> NoMapper]

\* normalizedComponents[componentName]: found is its truthiness
Lookup(normalized, componentName) ==
    IF \E i \in 1..Len(normalized) : normalized[i].name = componentName
    THEN [found |-> TRUE,
          config |-> normalized[CHOOSE i \in 1..Len(normalized) :
                                    normalized[i].name = componentName].value]
    ELSE IF componentName \in ObjectPrototypeKeys
    THEN [found |-> TRUE, config |-> InheritedMember]
    ELSE [found |-> FALSE, config |-> InheritedMember]

\* the select trait that leads baseTraits
SelectorTrait(normalized) ==
    [type |-> "select", name |-> "component", label |-> "Component", def |-> Undef,
     options |-> [i \in 1..Len(normalized) |->
                    [id |-> normalized[i].name, name |-> normalized[i].name]]]

\* PushTraits where a later declaration replaces the entry of the same name
RECURSIVE PushTraits_LastWins(_, _, _)
PushTraits_LastWins(base, traits, i) ==
    IF i > Len(traits) THEN base
    ELSE PushTraits_LastWins(
            IF \E j \in 1..Len(base) : base[j].name = traits[i].name
            THEN [j \in 1..Len(base) |->
                    IF base[j].name = traits[i].name THEN traits[i] ELSE base[j]]
            ELSE Append(base, traits[i]),
            traits, i + 1)

\* config.traits?.forEach: push the trait unless baseTraits holds its name
RECURSIVE PushTraits(_, _, _)
PushTraits(base, traits, i) ==
    IF i > Len(traits) THEN base
    ELSE PushTraits(
            IF \E j \in 1..Len(base) : base[j].name = traits[i].name
            THEN base ELSE Append(base, traits[i]),
            traits, i + 1)

RECURSIVE MergeTraits(_, _, _)
MergeTraits(base, normalized, i) ==
    IF i > Len(normalized) THEN base
    ELSE MergeTraits(
            IF normalized[i].value.hasTraits
            THEN PushTraits(base, normalized[i].value.traits, 1) ELSE base,
            normalized, i + 1)

baseTraits(normalized) == MergeTraits(<<SelectorTrait(normalized)>>, normalized, 1)

\* traitsMap.get(key) names a json trait
IsJsonTrait(base, key) ==
    /\ key # ""
    /\ \E j \in 1..Len(base) : base[j].name = key /\ base[j].type = "json"

(***************************************************************************)
(* index.ts: view.render, the part that computes the element.              *)
(***************************************************************************)
Primitive == {"string", "number", "boolean", "undefined", "null"}

\* attrsRaw -> attrs: only primitive values are copied
ToComponentAttributes(attrsRaw) ==
    Restrict(attrsRaw, {k \in DOMAIN attrsRaw : attrsRaw[k].t \in Primitive})

\* (typeof attrs.component === 'string' ? attrs.component : undefined) || fallbackName
ComponentName(a, fallback) ==
    IF /\ "component" \in DOMAIN a
       /\ a["component"].t = "string"
       /\ a["component"].v # ""
    THEN a["component"].v
    ELSE fallback

ReservedKeys == {"component", "data-gjs-type"}

\* RawProps without the value !== '' test of line 298
RawProps_EmptyTextOverrides(config, a, base) ==
    LET seeded == IF config.hasDefaultProps
                  THEN Present(config.defaultProps, {Undef}) ELSE EmptyObject
        passed == {k \in DOMAIN a :
                      k \notin ReservedKeys /\ a[k] \notin {Undef, Null}}
        over == [k \in passed |->
                    IF IsJsonTrait(base, k) /\ a[k].t = "string"
                    THEN ParseOrKeep(a[k]) ELSE a[k]]
    IN  Overlay(seeded, over)

\* rawProps: the defaults, then the attributes
RawProps(config, a, base) ==
    LET seeded == IF config.hasDefaultProps
                  THEN Present(config.defaultProps, {Undef}) ELSE EmptyObject
        passed == {k \in DOMAIN a :
                      /\ k \notin ReservedKeys
                      /\ a[k] \notin {Undef, Null, Str("")}}
        over == [k \in passed |->
                    IF IsJsonTrait(base, k) /\ a[k].t = "string"
                    THEN ParseOrKeep(a[k]) ELSE a[k]]
    IN  Overlay(seeded, over)

\* FinalProps calling config.mapProps(rawProps) in place of config.mapProps(attrs)
FinalProps_MapsRawProps(config, a, base) ==
    IF config.mapProps.kind # "none"
    THEN CallMapProps(config.mapProps, RawProps(config, a, base))
    ELSE Flat(RawProps(config, a, base))

\* finalProps
FinalProps(config, a, base) ==
    IF config.mapProps.kind # "none"
    THEN CallMapProps(config.mapProps, a)
    ELSE Flat(RawProps(config, a, base))

\* React.createElement(type, props), children apart
Element(type, props) == [type |-> type, props |-> props]

(***************************************************************************)
(* index.ts: createProviderWrapper.  A wrapped element is the sequence of  *)
(* its layers, outermost first; each layer's children is the rest.         *)
(***************************************************************************)
\* the caller's wrapComponent, used as an input: the example's
\* <AppProvider><SomeOtherProvider>{element}</SomeOtherProvider></AppProvider>
UserWrapComponent(element, componentName) ==
    <<Element("AppProvider", Flat(EmptyObject)),
      Element("SomeOtherProvider", Flat(EmptyObject))>> \o element

\* ReduceRightProviders as providers.reduce: the list is folded from its first entry
RECURSIVE ReduceLeftProviders(_, _, _)
ReduceLeftProviders(providers, i, acc) ==
    IF i < 1 THEN acc
    ELSE ReduceLeftProviders(
            providers, i - 1,
            <<Element(providers[Len(providers) + 1 - i].component,
                      Flat(providers[Len(providers) + 1 - i].props.fields))>> \o acc)

\* providers.reduceRight((acc, providerConfig) => createElement(...), element)
RECURSIVE ReduceRightProviders(_, _, _)
ReduceRightProviders(providers, i, acc) ==
    IF i < 1 THEN acc
    ELSE ReduceRightProviders(
            providers, i - 1,
            <<Element(providers[i].component, Flat(providers[i].props.fields))>> \o acc)

\* createProviderWrapper testing providers before wrapComponent
createProviderWrapper_ProvidersFirst(opts) ==
    IF opts.hasProviders /\ Len(opts.providers) > 0 THEN "providers"
    ELSE IF opts.wrapComponent # "none" THEN "wrapComponent"
    ELSE IF opts.Provider # "none" THEN "Provider"
    ELSE "identity"

\* which of the four closures createProviderWrapper returns
createProviderWrapper(opts) ==
    IF opts.wrapComponent # "none" THEN "wrapComponent"
    ELSE IF opts.hasProviders /\ Len(opts.providers) > 0 THEN "providers"
    ELSE IF opts.Provider # "none" THEN "Provider"
    ELSE "identity"

\* wrapWithProviders(element, componentName)
wrapWithProviders(opts, element, componentName) ==
    LET strategy == createProviderWrapper(opts)
    IN  CASE strategy = "wrapComponent" -> UserWrapComponent(<<element>>, componentName)
          [] strategy = "providers" ->
                ReduceRightProviders(opts.providers, Len(opts.providers), <<element>>)
          [] strategy = "Provider" ->
                <<Element(opts.Provider, Flat(opts.providerProps.fields)), element>>
          [] strategy = "identity" -> <<element>>

(***************************************************************************)
(* index.ts: the view hooks.  A view object is described by what its el,   *)
(* model and listenTo members are.                                         *)
(***************************************************************************)
View(el, model, listenTo) == [el |-> el, model |-> model, listenTo |-> listenTo]

\* el: "missing" | "null" | "element" | "text"
\* model: "missing" | "null" | "plain" (no getAttributes) | "data" (getAttributes is
\*        no function) | "model"
\* listenTo: "missing" | "function" | "text"
\* hasViewProperties without the getAttributes tests of lines 52-59
hasViewProperties_AnyModel(obj) ==
    /\ obj.el # "missing" /\ obj.model # "missing" /\ obj.listenTo # "missing"
    /\ obj.el \notin {"null", "text"}
    /\ obj.model # "null"
    /\ obj.listenTo = "function"

hasViewProperties(obj) ==
    /\ obj.el # "missing" /\ obj.model # "missing" /\ obj.listenTo # "missing"
    /\ obj.el \notin {"null", "text"}
    /\ obj.model # "null"
    /\ obj.listenTo = "function"
    /\ obj.model # "plain"
    /\ obj.model # "data"

\* what one hook call did
Effects(hook, name, found, mapCalls, created, rendered, unmounted) ==
    [node |-> "", hook |-> hook, name |-> name, found |-> found, mapCalls |-> mapCalls,
     created |-> created, rendered |-> rendered, unmounted |-> unmounted]

NoEffects(hook) == Effects(hook, "", FALSE, 0, FALSE, FALSE, FALSE)

\* createRoot(view.el)
NewRoot == [live |-> TRUE, unmounts |-> 0, content |-> << >>]

\* RenderView with rawProps kept across calls: what an earlier render of the view
\* put into the properties stays unless this render overwrites it
RenderView_PropsOutlive(opts, obj, attrsRaw, st) ==
    IF ~hasViewProperties(obj) THEN [st EXCEPT !.last = NoEffects("render")]
    ELSE
    LET a == ToComponentAttributes(attrsRaw)
        componentName == ComponentName(a, fallbackName(opts))
        normalized == normalizedComponents(opts.components)
        got == Lookup(normalized, componentName)
    IN  IF ~got.found
        THEN [st EXCEPT !.last =
                Effects("render", componentName, FALSE, 0, FALSE, FALSE, FALSE)]
        ELSE
        LET config == got.config
            computed == FinalProps(config, a, baseTraits(normalized))
            earlier == IF st.rootRef # 0 /\ st.roots[st.rootRef].content # << >>
                       THEN st.roots[st.rootRef].content[
                                Len(st.roots[st.rootRef].content)].props.fields
                       ELSE EmptyObject
            finalProps == [computed EXCEPT !.fields = Overlay(earlier, computed.fields)]
            element == Element(config.component, finalProps)
            wrappedElement == wrapWithProviders(opts, element, componentName)
            create == st.rootRef = 0
            created == IF create THEN Append(st.roots, NewRoot) ELSE st.roots
            ref == IF create THEN Len(created) ELSE st.rootRef
        IN  [rootRef |-> ref,
             roots |-> [created EXCEPT ![ref].content = wrappedElement],
             last |-> Effects("render", componentName, TRUE,
                              IF config.mapProps.kind # "none" THEN 1 ELSE 0,
                              create, TRUE, FALSE)]

\* render() on a view in state st = [rootRef, roots, last]
RenderView(opts, obj, attrsRaw, st) ==
    IF ~hasViewProperties(obj) THEN [st EXCEPT !.last = NoEffects("render")]
    ELSE
    LET a == ToComponentAttributes(attrsRaw)
        componentName == ComponentName(a, fallbackName(opts))
        normalized == normalizedComponents(opts.components)
        got == Lookup(normalized, componentName)
    IN  IF ~got.found
        THEN [st EXCEPT !.last =
                Effects("render", componentName, FALSE, 0, FALSE, FALSE, FALSE)]
        ELSE
        LET config == got.config
            finalProps == FinalProps(config, a, baseTraits(normalized))
            element == Element(config.component, finalProps)
            wrappedElement == wrapWithProviders(opts, element, componentName)
            create == st.rootRef = 0
            created == IF create THEN Append(st.roots, NewRoot) ELSE st.roots
            ref == IF create THEN Len(created) ELSE st.rootRef
        IN  [rootRef |-> ref,
             roots |-> [created EXCEPT ![ref].content = wrappedElement],
             last |-> Effects("render", componentName, TRUE,
                              IF config.mapProps.kind # "none" THEN 1 ELSE 0,
                              create, TRUE, FALSE)]

\* the 'change:attributes' event: every subscription calls render
RECURSIVE Notify(_, _, _, _, _)
Notify(opts, obj, attrsRaw, st, count) ==
    IF count = 0 THEN st
    ELSE Notify(opts, obj, attrsRaw, RenderView(opts, obj, attrsRaw, st), count - 1)

ViewState(n) == [rootRef |-> rootRef[n], roots |-> roots[n], last |-> last]

\* SetViewState with the root handle kept in one variable of the plugin closure
\* in place of view._root
SetViewState_SharedRoot(n, st) ==
    /\ rootRef' = [m \in Nodes |-> st.rootRef]
    /\ roots' = [m \in Nodes |-> st.roots]
    /\ last' = [st.last EXCEPT !.node = n]

SetViewState(n, st) ==
    /\ rootRef' = [rootRef EXCEPT ![n] = st.rootRef]
    /\ roots' = [roots EXCEPT ![n] = st.roots]
    /\ last' = [st.last EXCEPT !.node = n]

\* a render that has to create a root stays within MaxRoots
RootAvailable(n) == rootRef[n] # 0 \/ Len(roots[n]) < MaxRoots

\* view.init()
ViewInit(n) ==
    /\ subs[n] < MaxSubs
    /\ subs' = [subs EXCEPT ![n] = IF hasViewProperties(host[n]) THEN @ + 1 ELSE @]
    /\ last' = [NoEffects("init") EXCEPT !.node = n]
    /\ UNCHANGED <<options, host, attrs, rootRef, roots>>

\* view.render(), called by the host
Render(n) ==
    /\ RootAvailable(n)
    /\ SetViewState(n, RenderView(options, host[n], attrs[n], ViewState(n)))
    /\ UNCHANGED <<options, host, attrs, subs>>

\* view.removed()
Removed(n) ==
    /\ IF hasViewProperties(host[n]) /\ rootRef[n] # 0
       THEN /\ roots' = [roots EXCEPT ![n][rootRef[n]] =
                            [live |-> FALSE, unmounts |-> @.unmounts + 1,
                             content |-> << >>]]
            /\ rootRef' = [rootRef EXCEPT ![n] = 0]
            /\ last' = [Effects("removed", "", FALSE, 0, FALSE, FALSE, TRUE)
                            EXCEPT !.node = n]
       ELSE /\ UNCHANGED <<roots, rootRef>>
            /\ last' = [NoEffects("removed") EXCEPT !.node = n]
    /\ UNCHANGED <<options, host, attrs, subs>>

\* the host sets (or, with value "absent", deletes) one attribute of the node and
\* triggers 'change:attributes'
Absent == [t |-> "absent", v |-> ""]

WithAttribute(obj, key, value) ==
    IF value = Absent
    THEN Restrict(obj, DOMAIN obj \ {key})
    ELSE Overlay(obj, [k \in {key} |-> value])

\* ChangeAttributes where render works on the attributes read before the change
ChangeAttributes_StaleRead(n, key, value) ==
    /\ RootAvailable(n)
    /\ attrs' = [attrs EXCEPT ![n] = WithAttribute(@, key, value)]
    /\ attrs'[n] # attrs[n]
    /\ SetViewState(n,
            Notify(options, host[n], attrs[n],
                   [ViewState(n) EXCEPT !.last = NoEffects("change")], subs[n]))
    /\ UNCHANGED <<options, host, subs>>

ChangeAttributes(n, key, value) ==
    /\ RootAvailable(n)
    /\ attrs' = [attrs EXCEPT ![n] = WithAttribute(@, key, value)]
    /\ attrs'[n] # attrs[n]
    /\ SetViewState(n,
            Notify(options, host[n], attrs'[n],
                   [ViewState(n) EXCEPT !.last = NoEffects("change")], subs[n]))
    /\ UNCHANGED <<options, host, subs>>

(***************************************************************************)
(* The inputs: registered components, plugin options, attributes.          *)
(***************************************************************************)
Hero == Renderable("Hero")

\* registered as an element, <Banner />
Banner == RenderableElement("Banner")

Button ==
    createSimpleComponentConfig("Button",
        <<Trait("text", "title", "Button Label", Str("Click me"))>>,
        [k \in {"title", "hidden"} |-> IF k = "title" THEN Str("Welcome") ELSE Undef])

\* declares data as a json trait
Chart ==
    createSimpleComponentConfig("Chart",
        <<Trait("text", "title", "Title", Undef), Trait("json", "data", "Data (JSON)", Undef)>>,
        [k \in {"title"} |-> Num("1")])

\* declares data as a text trait
Note ==
    createSimpleComponentConfig("Note",
        <<Trait("text", "data", "Text", Undef)>>, EmptyObject)

Panel ==
    createWrapperComponentConfig("Panel", "config",
        <<Trait("text", "title", "Title", Undef)>>,
        [k \in {"title"} |-> Num("1")], EmptyObject)

Legacy == createUiComponentConfig("Legacy", << >>, [k \in {"title"} |-> Num("1")])

Table ==
    createJsonComponentConfig("Table",
        <<Trait("json", "data", "Rows", Undef)>>, {"data"},
        [k \in {"title"} |-> Num("1")], "none")

\* decodes rows only; data is declared a json trait but is no JSON field
Sheet ==
    createJsonComponentConfig("Sheet",
        <<Trait("json", "data", "Data", Undef), Trait("json", "rows", "Rows", Undef)>>,
        {"rows"}, EmptyObject, "none")

TableMapped ==
    createJsonComponentConfig("TableMapped",
        <<Trait("json", "data", "Rows", Undef)>>, {"data"}, EmptyObject, "titleOnly")

\* a hand-written descriptor with mapProps and defaultProps
Custom ==
    ComponentConfig("Custom", TRUE, <<Trait("text", "title", "Title", Undef)>>,
                    TRUE, [k \in {"title"} |-> Num("1")], CustomMapper("titleOnly"))

WellFormed == View("element", "model", "function")

Malformed ==
    {View("missing", "model", "function"), View("element", "plain", "function"),
     View("element", "model", "missing"), View("element", "data", "function"),
     View("null", "model", "function"), View("element", "model", "text")}

NoProviders ==
    [wrapComponent |-> "none", hasProviders |-> FALSE, providers |-> << >>,
     Provider |-> "none", providerProps |-> NoProps]

PluginOptions(components, defaultComponent, wrapping) ==
    [components |-> components, defaultComponent |-> defaultComponent,
     wrapComponent |-> wrapping.wrapComponent,
     hasProviders |-> wrapping.hasProviders, providers |-> wrapping.providers,
     Provider |-> wrapping.Provider, providerProps |-> wrapping.providerProps]

StoreProps == Props([k \in {"store"} |-> Obj("store")])

\* every attribute object over the given values per key (Absent: the key is not set)
RECURSIVE AttributeObjects(_)
AttributeObjects(values) ==
    IF DOMAIN values = {} THEN {EmptyObject}
    ELSE LET key == CHOOSE k \in DOMAIN values : TRUE
             rest == AttributeObjects(Restrict(values, DOMAIN values \ {key}))
         IN  {WithAttribute(r, key, v) : r \in rest, v \in values[key]}

\* the state after the plugin is installed and the views are constructed
InitViews(opts, views, attributes) ==
    /\ options = opts
    /\ host = views
    /\ attrs = attributes
    /\ subs = [n \in Nodes |-> 0]
    /\ rootRef = [n \in Nodes |-> 0]
    /\ roots = [n \in Nodes |-> << >>]
    /\ last = NoEffects("none")

\* only node n1 is on the canvas, with attribute object a
OneNode(a) == [n \in Nodes |-> IF n = "n1" THEN a ELSE EmptyObject]

(***************************************************************************)
(* Spec: the life of the views of two canvas nodes.                        *)
(***************************************************************************)
LifeOptions ==
    {PluginOptions(<<Entry("Hero", Hero), Entry("Button", Button)>>, d, NoProviders) :
        d \in {"", "Button"}}

LifeChanges ==
    {<<"component", Str("Ghost")>>, <<"component", Str("constructor")>>,
     <<"component", Absent>>}

Init ==
    \E opts \in LifeOptions, views \in [Nodes -> {WellFormed} \cup Malformed] :
        InitViews(opts, views,
                  [n \in Nodes |-> [k \in {"data-gjs-type"} |-> Str("react-comp")]])

Next ==
    \E n \in Nodes :
        \/ ViewInit(n)
        \/ Render(n)
        \/ Removed(n)
        \/ \E c \in LifeChanges : ChangeAttributes(n, c[1], c[2])

Spec == Init /\ [][Next]_vars

(***************************************************************************)
(* SpecWrap: two views rendered under every combination of the wrapping     *)
(* options.  SpecMap: one view rendered for every registry, selector and    *)
(* attribute object.  The inputs are drawn by Init; the hooks apply them.   *)
(***************************************************************************)
ProviderPairs ==
    {<<"ReduxProvider", StoreProps>>,
     <<"ThemeProvider", Props([k \in {"theme"} |-> Obj("theme")])>>,
     <<"ContextProvider", NoProps>>}

\* the sequences over S of length at most n
RECURSIVE SeqsUpTo(_, _)
SeqsUpTo(S, n) ==
    IF n = 0 THEN {<< >>}
    ELSE LET shorter == SeqsUpTo(S, n - 1)
         IN  shorter \cup {Append(q, x) : q \in shorter, x \in S}

WrapOptions ==
    {[wrapComponent |-> w, hasProviders |-> TRUE, providers |-> createProviderStack(pairs),
      Provider |-> p.component, providerProps |-> p.props] :
        w \in {"none", "user"},
        pairs \in SeqsUpTo(ProviderPairs, MaxProviders),
        p \in {createProvider("none", NoProps), createProvider("LocaleProvider", NoProps),
               createProvider("StoreProvider", StoreProps)}}
    \cup
    {[NoProviders EXCEPT !.wrapComponent = w] : w \in {"none", "user"}}

InitWrap ==
    \E w \in WrapOptions, d \in {"", "Button"},
       a \in AttributeObjects("component" :> {Absent, Str("Button"), Str("Ghost")}) :
        InitViews(PluginOptions(<<Entry("Hero", Hero), Entry("Button", Button)>>, d, w),
                  [n \in Nodes |-> WellFormed],
                  [n \in Nodes |->
                      IF n = "n1" THEN a
                      ELSE ("component" :> Str("Button")) @@ ("title" :> Str("y"))])

NextWrap == \E n \in Nodes : Render(n) \/ Removed(n)

SpecWrap == InitWrap /\ [][NextWrap]_vars

NextOne == Render("n1") \/ Removed("n1")

Registries ==
    {<< >>,
     <<Entry("Hero", Hero), Entry("Button", Button)>>,
     <<Entry("Note", Note), Entry("Chart", Chart)>>,
     <<Entry("Chart", Chart), Entry("Note", Note)>>,
     <<Entry("Panel", Panel), Entry("Legacy", Legacy)>>,
     <<Entry("Table", Table), Entry("Custom", Custom)>>,
     <<Entry("Sheet", Sheet), Entry("Table", Table)>>,
     <<Entry("Banner", Banner), Entry("Hero", Hero)>>,
     <<Entry("TableMapped", TableMapped), Entry("Button", Button)>>}

MapOptions ==
    {PluginOptions(c, d, NoProviders) :
        c \in Registries, d \in {"", "Ghost", "Button", "Chart", "Custom"}}

MapAttributes(components) ==
    AttributeObjects(
        ("component" :> ({Absent, Str(""), Str("Ghost"), Str("constructor"), Num("1")}
                         \cup {Str(x) : x \in KeySet(components)}))
        @@ ("data-gjs-type" :> {Absent, Str("react-comp")})
        @@ ("title" :> {Absent, Undef, Null, Str(""), Str("x"), Num("0"), Bool("false")})
        @@ ("data" :> {Absent, Str("[1]"), Str("{bad"), Num("7"), Obj("host")}))

InitMap ==
    \E opts \in MapOptions :
        \E a \in MapAttributes(opts.components) :
            InitViews(opts, [n \in Nodes |-> WellFormed], OneNode(a))

SpecMap == InitMap /\ [][NextOne]_vars

(***************************************************************************)
(* SpecLive: two views on one canvas, with a default-mapped, a wrapper and  *)
(* a JSON-field descriptor registered.  The host constructs a view, which   *)
(* calls init, before the node's attributes can be edited; node n1 is the   *)
(* one the user edits.                                                      *)
(***************************************************************************)
LiveRegistry == <<Entry("Button", Button), Entry("Panel", Panel), Entry("Table", Table)>>

SingleProvider ==
    [NoProviders EXCEPT !.Provider = "StoreProvider", !.providerProps = StoreProps]

LiveOptions == {PluginOptions(LiveRegistry, "", SingleProvider)}

LiveChanges ==
    {<<"component", Str("Panel")>>, <<"component", Str("Table")>>,
     <<"component", Str("Ghost")>>, <<"component", Absent>>,
     <<"title", Str("x")>>, <<"title", Absent>>,
     <<"data", Str("[1]")>>, <<"data", Absent>>}

\* the attributes of a new node: those of the type's model defaults
InitLive ==
    \E opts \in LiveOptions :
        InitViews(opts, [n \in Nodes |-> WellFormed],
                  [n \in Nodes |-> DefaultAttributes(opts)])

NextLive ==
    \E n \in Nodes :
        \/ ViewInit(n)
        \/ Render(n)
        \/ Removed(n)
        \/ /\ n = "n1"
           /\ subs[n] >= 1
           /\ \E c \in LiveChanges : ChangeAttributes(n, c[1], c[2])

SpecLive == InitLive /\ [][NextLive]_vars

(***************************************************************************)
(* index.ts: the palette blocks, one bm.add call per registered name.  A    *)
(* block's content is the react-comp div with its attribute list, each      *)
(* attribute a key and the text between the quotes.                         *)
(***************************************************************************)
\* String(value)
StringOf(value) ==
    CASE value.t = "object" /\ value.v = "[1]" -> Str("1")
      [] value.t = "object" -> Str("[object Object]")
      [] OTHER -> ToText(value)

\* text.toLowerCase(), for the names the inputs register and the keys they write
toLowerCase(name) ==
    CASE name = "Hero" -> "hero"
      [] name = "Button" -> "button"
      [] name = "Badge" -> "badge"
      [] name = "Feed" -> "feed"
      [] name = "Chart" -> "chart"
      [] name = "Gauge" -> "gauge"
      [] name = "Grid" -> "grid"
      [] name = "Note" -> "note"
      [] name = "textColor" -> "textcolor"
      [] name = "backgroundColor" -> "backgroundcolor"
      [] OTHER -> name

\* `react-${name.toLowerCase()}`
BlockId(name) == "react-" \o toLowerCase(name)

\* `${key}="${stringValue}"`
Attr(key, text) == [key |-> key, text |-> text]

\* Object.entries(config.defaultProps).forEach: one attribute per entry that is
\* neither undefined nor null (the keys of an object are distinct, so the order the
\* entries are visited in does not change which keys the list holds)
RECURSIVE PropAttrs(_, _)
PropAttrs(props, keys) ==
    IF keys = {} THEN << >>
    ELSE LET k == CHOOSE x \in keys : TRUE
         IN  (IF props[k] \notin {Undef, Null}
              THEN <<Attr(k, StringOf(props[k]).v)>> ELSE << >>)
             \o PropAttrs(props, keys \ {k})

\* config.traits?.forEach: the trait's defaultValue, unless an attribute of the
\* list starts with `${trait.name}=`
RECURSIVE TraitAttrs(_, _, _)
TraitAttrs(list, traits, i) ==
    IF i > Len(traits) THEN list
    ELSE TraitAttrs(
            IF /\ traits[i].def # Undef
               /\ ~\E j \in 1..Len(list) : list[j].key = traits[i].name
            THEN Append(list, Attr(traits[i].name, StringOf(traits[i].def).v))
            ELSE list,
            traits, i + 1)

defaultAttrs(name, config) ==
    TraitAttrs(
        <<Attr("component", name)>>
            \o (IF config.hasDefaultProps
                THEN PropAttrs(config.defaultProps, DOMAIN config.defaultProps)
                ELSE << >>),
        IF config.hasTraits THEN config.traits ELSE << >>, 1)

\* the arguments of one bm.add call
Block(name, config) ==
    [id |-> BlockId(name), label |-> name \o " (React)", category |-> "React",
     content |-> [type |-> "react-comp", attributes |-> defaultAttrs(name, config)]]

\* what the host's block manager does when bm.add names an id it already holds:
\* the code leaves it to the host, which either replaces the block or keeps it
OnSameId == {"replace", "keep"}

\* Object.keys(normalizedComponents).forEach(... bm.add(id, block)): the block
\* manager holds one block per id
RECURSIVE AddBlocks(_, _, _, _)
AddBlocks(blocks, normalized, i, onSameId) ==
    IF i > Len(normalized) THEN blocks
    ELSE LET b == Block(normalized[i].name, normalized[i].value)
         IN  AddBlocks(
                IF \E j \in 1..Len(blocks) : blocks[j].id = b.id
                THEN [j \in 1..Len(blocks) |->
                        IF blocks[j].id = b.id /\ onSameId = "replace"
                        THEN b ELSE blocks[j]]
                ELSE Append(blocks, b),
                normalized, i + 1, onSameId)

\* the palette after the plugin is installed
Blocks(opts, onSameId) ==
    AddBlocks(<< >>, normalizedComponents(opts.components), 1, onSameId)

\* the attributes the host parses from a content's attribute list, as an HTML
\* parser reads them: a key is lower-cased, every value is text, and of a key
\* written twice the first occurrence counts
RECURSIVE ParseAttributes(_, _)
ParseAttributes(attributes, i) ==
    IF i > Len(attributes) THEN EmptyObject
    ELSE Overlay(ParseAttributes(attributes, i + 1),
                 [k \in {toLowerCase(attributes[i].key)} |-> Str(attributes[i].text)])

\* the attributes of a node the host creates from a content: the type's default
\* attributes, overlaid by those of the content
NodeFromContent(opts, content) ==
    Overlay(DefaultAttributes(opts), ParseAttributes(content.attributes, 1))

\* the attributes of a node created from a block
NodeFromBlock(opts, block) == NodeFromContent(opts, block.content)

\* the user drags block i of the palette onto the canvas, where it becomes node n
DropBlock(n, i, onSameId) ==
    /\ attrs[n] = EmptyObject
    /\ roots[n] = << >>
    /\ i \in 1..Len(Blocks(options, onSameId))
    /\ attrs' = [attrs EXCEPT ![n] = NodeFromBlock(options, Blocks(options, onSameId)[i])]
    /\ last' = [NoEffects("drop") EXCEPT !.node = n]
    /\ UNCHANGED <<options, host, subs, rootRef, roots>>

\* the markup the onReady callback hands to editor.setComponents
InitialContent(opts) ==
    [type |-> "react-comp",
     attributes |-> <<Attr("component", fallbackName(opts)),
                      Attr("title", "Build visually with React components"),
                      Attr("subtitle", "Rendered by your React component")>>]

\* nothing has happened on the canvas yet: the editor is still to become ready
BeforeReady == last.hook = "none"

\* editor.onReady(() => editor.setComponents(...)): when the editor becomes ready,
\* which it does once and before the user can act, the canvas is set to the one
\* node of InitialContent, here node n, in place of what was there
onReady(n) ==
    /\ BeforeReady
    /\ \A m \in Nodes : roots[m] = << >>
    /\ attrs' = [m \in Nodes |->
                    IF m = n THEN NodeFromContent(options, InitialContent(options))
                    ELSE EmptyObject]
    /\ last' = [NoEffects("ready") EXCEPT !.node = n]
    /\ UNCHANGED <<options, host, subs, rootRef, roots>>

(***************************************************************************)
(* SpecBlocks: the plugin installed on an editor with an empty canvas.  The *)
(* editor becomes ready, which puts the initial node on the canvas; then    *)
(* nodes are created from the palette blocks of the registries below and    *)
(* rendered as they are.                                                    *)
(***************************************************************************)
\* a bare component whose name differs from Hero's in case only
HeroLower == Renderable("hero")

\* text defaults only: one in defaultProps, one as a trait defaultValue
Badge ==
    createSimpleComponentConfig("Badge",
        <<Trait("text", "title", "Title", Str("Badge")),
          Trait("color", "textColor", "Text Color", Str("#000000"))>>,
        [k \in {"title"} |-> Str("New")])

\* a json trait with a defaultValue
Feed ==
    createSimpleComponentConfig("Feed",
        <<Trait("json", "data", "Items", Str("[1]"))>>, EmptyObject)

\* number and checkbox traits with a defaultValue
Gauge ==
    createSimpleComponentConfig("Gauge",
        <<Trait("number", "value", "Value", Num("5")),
          Trait("checkbox", "visible", "Visible", Bool("true"))>>,
        EmptyObject)

\* a structured default under a json trait
Grid ==
    createSimpleComponentConfig("Grid",
        <<Trait("json", "data", "Rows", Undef)>>,
        [k \in {"data"} |-> Obj("[1]")])

BlockRegistries ==
    {<<Entry("Hero", Hero), Entry("Button", Button)>>,
     <<Entry("Badge", Badge), Entry("Feed", Feed)>>,
     <<Entry("Chart", Chart), Entry("Gauge", Gauge)>>,
     <<Entry("Grid", Grid), Entry("Note", Note)>>,
     <<Entry("Hero", Hero), Entry("hero", HeroLower)>>}

\* the edits of a trait the user makes on a node of the canvas
BlockChanges == {<<"title", Str("x")>>, <<"title", Absent>>}

InitBlocks ==
    \E c \in BlockRegistries, d \in {"", "Button"} :
        InitViews(PluginOptions(c, d, NoProviders),
                  [n \in Nodes |-> WellFormed],
                  [n \in Nodes |-> EmptyObject])

NextBlocks ==
    \E n \in Nodes :
        \/ onReady(n)
        \/ /\ ~BeforeReady
           /\ \E h \in OnSameId : \E i \in 1..Len(Blocks(options, h)) :
                 DropBlock(n, i, h)
        \/ ~BeforeReady /\ attrs[n] # EmptyObject /\ ViewInit(n)
        \/ ~BeforeReady /\ attrs[n] # EmptyObject /\ Render(n)
        \/ ~BeforeReady /\ Removed(n)
        \/ /\ attrs[n] # EmptyObject
           /\ subs[n] >= 1
           /\ \E c \in BlockChanges : ChangeAttributes(n, c[1], c[2])

SpecBlocks == InitBlocks /\ [][NextBlocks]_vars

(***************************************************************************)
(* What the properties below speak about.                                  *)
(***************************************************************************)
\* the view of node n holds a root
Mounted(n) == rootRef[n] # 0

\* the tree last rendered into the root the view holds
Content(n) == roots[n][rootRef[n]].content

\* the component element: the innermost layer of the tree
Inner(n) == Content(n)[Len(Content(n))]

\* the most recent hook call was a render of node n
JustRendered(n) == last.node = n /\ last.hook = "render"

NodeAttributes(n) == ToComponentAttributes(attrs[n])

Registered(name) == name \in KeySet(options.components)

ResolvedName(n) == ComponentName(NodeAttributes(n), fallbackName(options))

\* the descriptor registered under name
Descriptor(name) == Lookup(normalizedComponents(options.components), name).config

MergedTraits == baseTraits(normalizedComponents(options.components))

\* the element render builds for node n from its current attributes
ExpectedElement(n) ==
    Element(Descriptor(ResolvedName(n)).component,
            FinalProps(Descriptor(ResolvedName(n)), NodeAttributes(n), MergedTraits))

ProviderLayer(p) == Element(p.component, Flat(p.props.fields))

LiveRoots(n) == {i \in DOMAIN roots[n] : roots[n][i].live}

\* the attribute keys the default mapper passes on
PassedKeys(a) ==
    {k \in DOMAIN a : k \notin ReservedKeys /\ a[k] \notin {Undef, Null, Str("")}}

\* the descriptor's own defaultProps
DefaultsOf(config) == IF config.hasDefaultProps THEN config.defaultProps ELSE EmptyObject

\* the descriptor's own trait list declares key as a json trait
DeclaresJson(config, key) ==
    config.hasTraits /\ \E i \in 1..Len(config.traits) :
        config.traits[i].name = key /\ config.traits[i].type = "json"

(***************************************************************************)
(* C1 (SpecWrap).  With a non-empty providers list P1..Pn and no            *)
(* wrapComponent, the rendered tree is P1(P2(...Pn(E))): layer i is         *)
(* provider i with its props, and the element E is innermost.               *)
(* createProviderStack keeps the length and the order of the pairs the      *)
(* configured list is built from.                                           *)
(***************************************************************************)
C1_ProviderNesting ==
    /\ \A n \in Nodes :
        (/\ Mounted(n)
         /\ options.wrapComponent = "none"
         /\ options.hasProviders /\ Len(options.providers) > 0)
        => /\ Len(Content(n)) = Len(options.providers) + 1
           /\ \A i \in 1..Len(options.providers) :
                Content(n)[i] = ProviderLayer(options.providers[i])
           /\ Content(n)[Len(options.providers) + 1] = ExpectedElement(n)
    /\ LET pairs == [i \in 1..Len(options.providers) |->
                        <<options.providers[i].component, options.providers[i].props>>]
       IN  /\ Len(createProviderStack(pairs)) = Len(pairs)
           /\ \A i \in 1..Len(pairs) :
                /\ createProviderStack(pairs)[i].component = pairs[i][1]
                /\ createProviderStack(pairs)[i].props = pairs[i][2]

C1_Witness ==
    /\ Mounted("n1")
    /\ options.wrapComponent = "none"
    /\ Len(options.providers) = 3
    /\ options.providers[1].component = "ReduxProvider"
    /\ options.providers[3].component = "ContextProvider"
    /\ Content("n1")[1].type = "ReduxProvider"
    /\ Content("n1")[3].type = "ContextProvider"

(***************************************************************************)
(* C2 (SpecWrap).  Exactly one wrapping strategy is applied, chosen by the  *)
(* fixed priority wrapComponent, non-empty providers, Provider, identity,   *)
(* whatever the attributes of the rendered node are.                        *)
(***************************************************************************)
C2_OneStrategy ==
    \A n \in Nodes :
        Mounted(n) =>
            LET c == Content(n)
                outer == SubSeq(c, 1, Len(c) - 1)
                P == options.providers
            IN  /\ Inner(n) = ExpectedElement(n)
                /\ IF options.wrapComponent # "none"
                   THEN outer = <<Element("AppProvider", Flat(EmptyObject)),
                                  Element("SomeOtherProvider", Flat(EmptyObject))>>
                   ELSE IF options.hasProviders /\ Len(P) > 0
                   THEN /\ Len(outer) = Len(P)
                        /\ \A i \in 1..Len(P) : outer[i] = ProviderLayer(P[i])
                   ELSE IF options.Provider # "none"
                   THEN outer = <<Element(options.Provider,
                                          Flat(options.providerProps.fields))>>
                   ELSE outer = << >>

C2_Witness ==
    /\ Mounted("n1") /\ Mounted("n2")
    /\ Inner("n1") # Inner("n2")
    /\ options.wrapComponent # "none"
    /\ Len(options.providers) > 0
    /\ options.Provider # "none"
    /\ Content("n1")[1].type = "AppProvider"

(***************************************************************************)
(* C3 (SpecWrap).  A render uses the descriptor registered under the         *)
(* selector attribute if that name is registered; otherwise that of the     *)
(* configured defaultComponent; otherwise that of the first registered      *)
(* name.                                                                    *)
(***************************************************************************)
ClaimedName(n) ==
    LET a == NodeAttributes(n)
    IN  IF /\ "component" \in DOMAIN a
           /\ a["component"].t = "string"
           /\ Registered(a["component"].v)
        THEN a["component"].v
        ELSE IF options.defaultComponent # "" THEN options.defaultComponent
        ELSE IF Len(options.components) > 0 THEN options.components[1].name
        ELSE UndefinedName

C3_DescriptorResolution ==
    \A n \in Nodes :
        (JustRendered(n) /\ hasViewProperties(host[n]) /\ Registered(ClaimedName(n)))
        => /\ last.found
           /\ last.name = ClaimedName(n)
           /\ Inner(n).type = Descriptor(ClaimedName(n)).component

(***************************************************************************)
(* C4 (Spec).  A node owns at most one live root, and a root is created     *)
(* for it only once, by its first successful render.                        *)
(***************************************************************************)
C4_OneRootCreatedOnce ==
    \A n \in Nodes :
        /\ Cardinality(LiveRoots(n)) <= 1
        /\ Len(roots[n]) <= 1

(***************************************************************************)
(* C5 (Spec).  A root is unmounted at most once, and once the node's root   *)
(* has been unmounted by removed no live root exists for the node.          *)
(***************************************************************************)
C5_NoRootAfterRemoval ==
    \A n \in Nodes :
        /\ \A i \in DOMAIN roots[n] : roots[n][i].unmounts <= 1
        /\ (\E i \in DOMAIN roots[n] : ~roots[n][i].live) => LiveRoots(n) = {}

(***************************************************************************)
(* C6 (Spec).  A render whose resolved name has no registered descriptor    *)
(* calls no mapProps, creates no root and renders into no root.             *)
(***************************************************************************)
C6_UnresolvedIsNoOp ==
    (last.hook = "render" /\ ~Registered(last.name))
    => /\ last.mapCalls = 0
       /\ ~last.created
       /\ ~last.rendered

(***************************************************************************)
(* C7 (SpecMap).  The properties handed to the component of a registered    *)
(* descriptor hold neither component nor data-gjs-type, at top level or     *)
(* inside the wrapper object.                                               *)
(***************************************************************************)
C7_ReservedKeysDropped ==
    \A n \in Nodes :
        (Mounted(n) /\ Registered(ResolvedName(n)))
        => DOMAIN Inner(n).props.fields \cap ReservedKeys = {}

(***************************************************************************)
(* C8 (SpecMap).  As claimed: without mapProps the properties are exactly   *)
(* the defined defaults overlaid by the passed attribute entries as they    *)
(* are.                                                                     *)
(***************************************************************************)
C8_DefaultsThenAttributes ==
    \A n \in Nodes :
        (/\ Mounted(n) /\ Registered(ResolvedName(n))
         /\ Descriptor(ResolvedName(n)).mapProps.kind = "none")
        => LET a == NodeAttributes(n)
               d == DefaultsOf(Descriptor(ResolvedName(n)))
           IN  Inner(n).props =
                    Flat([k \in {x \in DOMAIN d : d[x] # Undef} \cup PassedKeys(a) |->
                            IF k \in PassedKeys(a) THEN a[k] ELSE d[k]])

(***************************************************************************)
(* C8 as amended (SpecMap).  Without mapProps the properties are the        *)
(* defined defaults overlaid by the passed attribute entries, where a       *)
(* textual value under a key the merged trait list declares json is         *)
(* decoded when it is valid JSON.  An empty-string or absent attribute      *)
(* leaves the default; false and 0 override it.                             *)
(***************************************************************************)
C8_DefaultsThenDecodedAttributes ==
    \A n \in Nodes :
        (/\ Mounted(n) /\ Registered(ResolvedName(n))
         /\ Descriptor(ResolvedName(n)).mapProps.kind = "none")
        => LET a == NodeAttributes(n)
               d == DefaultsOf(Descriptor(ResolvedName(n)))
               f == Inner(n).props.fields
           IN  /\ Inner(n).props.wrap = ""
               /\ DOMAIN f = {x \in DOMAIN d : d[x] # Undef} \cup PassedKeys(a)
               /\ \A k \in DOMAIN f :
                    IF k \notin PassedKeys(a) THEN f[k] = d[k]
                    ELSE IF IsJsonTrait(MergedTraits, k) /\ a[k].t = "string"
                               /\ a[k].v \in JsonTexts
                    THEN f[k] = JsonDecoded(a[k].v)
                    ELSE f[k] = a[k]
               /\ \A k \in DOMAIN d :
                    (d[k] # Undef /\ (k \notin DOMAIN a \/ a[k] = Str("")))
                    => f[k] = d[k]
               /\ \A k \in DOMAIN a \ ReservedKeys :
                    a[k] \in {Num("0"), Bool("false")} => f[k] = a[k]

C8_Witness ==
    /\ Mounted("n1")
    /\ ResolvedName("n1") = "Button"
    /\ "title" \in DOMAIN attrs["n1"] /\ attrs["n1"]["title"] = Str("")
    /\ Inner("n1").props.fields["title"] = Str("Welcome")

(***************************************************************************)
(* C9 (SpecMap).  With mapProps the properties are exactly what mapProps    *)
(* returns for the node's attributes, and mapProps is called once;          *)
(* defaultProps are not merged in, nothing is filtered or decoded.          *)
(***************************************************************************)
C9_MapPropsDecides ==
    \A n \in Nodes :
        (/\ Mounted(n) /\ Registered(ResolvedName(n))
         /\ Descriptor(ResolvedName(n)).mapProps.kind # "none")
        => /\ Inner(n).props =
                CallMapProps(Descriptor(ResolvedName(n)).mapProps, NodeAttributes(n))
           /\ (\A k \in DOMAIN attrs[n] : attrs[n][k].t \in Primitive)
                => Inner(n).props =
                        CallMapProps(Descriptor(ResolvedName(n)).mapProps, attrs[n])
           /\ JustRendered(n) => last.mapCalls = 1

C9_Witness ==
    /\ Mounted("n1") /\ JustRendered("n1")
    /\ ResolvedName("n1") = "Custom"
    /\ "title" \notin DOMAIN attrs["n1"]
    /\ "component" \in DOMAIN attrs["n1"]
    /\ Descriptor("Custom").defaultProps["title"] = Num("1")
    /\ Inner("n1").props = Flat([k \in {"title"} |-> Str("")])

(***************************************************************************)
(* C10 (SpecMap).  Without mapProps, a valid JSON text under a key the      *)
(* resolved descriptor declares as a json trait is handed over decoded,     *)
(* and under a key it does not declare json it is handed over as text,      *)
(* whatever the other registered descriptors declare.                       *)
(***************************************************************************)
C10_JsonByOwnTraits ==
    \A n \in Nodes :
        (/\ Mounted(n) /\ Registered(ResolvedName(n))
         /\ Descriptor(ResolvedName(n)).mapProps.kind = "none")
        => LET a == NodeAttributes(n)
               f == Inner(n).props.fields
           IN  \A k \in PassedKeys(a) :
                    (a[k].t = "string" /\ a[k].v \in JsonTexts)
                    => IF DeclaresJson(Descriptor(ResolvedName(n)), k)
                       THEN f[k] = JsonDecoded(a[k].v)
                       ELSE f[k] = a[k]

(***************************************************************************)
(* C11 (SpecMap).  Decoding a JSON-typed value never fails: a textual       *)
(* value is handed over decoded when it is valid JSON and as the original   *)
(* text when it is not, a non-textual value is handed over unchanged, by    *)
(* parseJsonTrait (the JSON-field mapper) and by the default mapper alike;  *)
(* the render that met an undecodable text completes and mounts.            *)
(***************************************************************************)
\* what a lenient decode of value is
LenientlyDecoded(value) ==
    IF value.t = "string" /\ value.v \in JsonTexts THEN JsonDecoded(value.v) ELSE value

\* the attribute keys of node n whose value goes through a JSON decode
DecodedKeys(n) ==
    LET a == NodeAttributes(n)
        config == Descriptor(ResolvedName(n))
    IN  IF config.mapProps.kind = "none"
        THEN {k \in PassedKeys(a) : IsJsonTrait(MergedTraits, k)}
        ELSE IF config.mapProps.kind = "json" /\ config.mapProps.secondary = "none"
        THEN {k \in DOMAIN a : k \in config.mapProps.jsonFields /\ a[k] \notin {Undef, Null}}
        ELSE {}

C11_DecodeNeverFails ==
    \A n \in Nodes :
        /\ \A k \in DOMAIN attrs[n] :
                parseJsonTrait(attrs[n][k]) = LenientlyDecoded(attrs[n][k])
        /\ (Mounted(n) /\ Registered(ResolvedName(n)))
            => \A k \in DecodedKeys(n) :
                    /\ k \in DOMAIN Inner(n).props.fields
                    /\ Inner(n).props.fields[k] = LenientlyDecoded(NodeAttributes(n)[k])
        /\ (JustRendered(n) /\ Registered(ResolvedName(n)))
            => last.rendered /\ Mounted(n) /\ Inner(n) = ExpectedElement(n)

C11_Witness ==
    /\ Mounted("n1") /\ JustRendered("n1")
    /\ ResolvedName("n1") \in {"Chart", "Table"}
    /\ "data" \in DecodedKeys("n1")
    /\ attrs["n1"]["data"] = Str("{bad")
    /\ Inner("n1").props.fields["data"] = Str("{bad")

(***************************************************************************)
(* C12 (SpecMap).  In the object the wrapper mapper nests under its key,    *)
(* an attribute that is undefined, null or the empty string leaves the      *)
(* default of the same key in place.                                        *)
(***************************************************************************)
C12_EmptyKeepsWrapperDefault ==
    \A n \in Nodes :
        (/\ Mounted(n) /\ Registered(ResolvedName(n))
         /\ Descriptor(ResolvedName(n)).mapProps.kind \in {"wrapper", "ui"})
        => LET a == NodeAttributes(n)
               m == Descriptor(ResolvedName(n)).mapProps
               mapped == createWrapperMapper(m.key, m.defaults, a)
           IN  \A k \in DOMAIN m.defaults \cap DOMAIN a :
                    a[k] \in {Undef, Null, Str("")}
                    => /\ mapped.fields[k] = m.defaults[k]
                       /\ Inner(n).props.fields[k] = m.defaults[k]

(***************************************************************************)
(* C13 (SpecMap).  For attributes whose values are all present, the         *)
(* wrapper mapper returns one key, the wrapper key, whose value holds       *)
(* every key of the defaults and of the attributes, the attribute's value   *)
(* on a shared key; the mapProps of the wrapper factories returns the       *)
(* same object.                                                             *)
(***************************************************************************)
AllPresent(a) == \A k \in DOMAIN a : a[k] \notin {Undef, Null, Str("")}

C13_WrapperShape ==
    \A n \in Nodes :
        (/\ Mounted(n) /\ Registered(ResolvedName(n))
         /\ Descriptor(ResolvedName(n)).mapProps.kind \in {"wrapper", "ui"}
         /\ AllPresent(NodeAttributes(n)))
        => LET a == NodeAttributes(n)
               m == Descriptor(ResolvedName(n)).mapProps
               f == Inner(n).props.fields
           IN  /\ Inner(n).props.wrap = m.key
               /\ DOMAIN f = DOMAIN m.defaults \cup DOMAIN a
               /\ \A k \in DOMAIN f :
                    f[k] = IF k \in DOMAIN a THEN a[k] ELSE m.defaults[k]
               /\ createWrapperMapper(m.key, m.defaults, a) = Inner(n).props

C13_Witness ==
    /\ Mounted("n1")
    /\ ResolvedName("n1") = "Panel"
    /\ AllPresent(NodeAttributes("n1"))
    /\ "title" \in DOMAIN attrs["n1"] /\ attrs["n1"]["title"] = Str("x")
    /\ "data" \in DOMAIN attrs["n1"] /\ attrs["n1"]["data"] = Str("[1]")
    /\ Descriptor("Panel").mapProps.defaults["title"] = Num("1")
    /\ Inner("n1").props.wrap = "config"
    /\ Inner("n1").props.fields["title"] = Str("x")
    /\ Inner("n1").props.fields["data"] = Str("[1]")

(***************************************************************************)
(* C14 (SpecMap).  The mapProps of createJsonComponentConfig drops the      *)
(* undefined and null attributes, leniently decodes the textual values of   *)
(* exactly the keys in jsonFields, passes every other value on unchanged    *)
(* under its key, and returns the secondary mapper's result for that        *)
(* object when one is supplied, the object itself otherwise.                *)
(***************************************************************************)
\* the object the JSON-field mapper builds before the secondary mapper
ParsedFields(jsonFields, a) ==
    [k \in {x \in DOMAIN a : a[x] \notin {Undef, Null}} |->
        IF k \in jsonFields THEN LenientlyDecoded(a[k]) ELSE a[k]]

C14_JsonFieldMapper ==
    \A n \in Nodes :
        (/\ Mounted(n) /\ Registered(ResolvedName(n))
         /\ Descriptor(ResolvedName(n)).mapProps.kind = "json")
        => LET m == Descriptor(ResolvedName(n)).mapProps
               parsed == ParsedFields(m.jsonFields, NodeAttributes(n))
           IN  Inner(n).props =
                    IF m.secondary = "none" THEN Flat(parsed)
                    ELSE UserMapper(m.secondary, parsed)

C14_Witness ==
    /\ Mounted("n1")
    /\ ResolvedName("n1") = "Sheet"
    /\ "data" \in DOMAIN attrs["n1"] /\ attrs["n1"]["data"] = Str("[1]")
    /\ "title" \in DOMAIN attrs["n1"] /\ attrs["n1"]["title"] = Null
    /\ Inner("n1").props.fields["data"] = Str("[1]")
    /\ "title" \notin DOMAIN Inner("n1").props.fields
    /\ Inner("n1").props.fields["component"] = Str("Sheet")

(***************************************************************************)
(* C15 (SpecMap).  The trait list registered for the node type has          *)
(* pairwise distinct names; its first entry is the select trait component   *)
(* whose options are the registered names in registration order; every      *)
(* other entry is the definition of its name in the first descriptor, in    *)
(* registration order then trait order, that declares the name; and every   *)
(* declared name has an entry.                                              *)
(***************************************************************************)
\* the positions <<descriptor, trait>> at which name is declared
Declarations(name) ==
    LET N == normalizedComponents(options.components)
    IN  UNION {{<<d, t>> : t \in {x \in 1..Len(N[d].value.traits) :
                                    /\ N[d].value.hasTraits
                                    /\ N[d].value.traits[x].name = name}} :
               d \in 1..Len(N)}

\* the first of them
FirstDeclaration(name) ==
    LET N == normalizedComponents(options.components)
        p == CHOOSE x \in Declarations(name) :
                \A y \in Declarations(name) :
                    x[1] < y[1] \/ (x[1] = y[1] /\ x[2] <= y[2])
    IN  N[p[1]].value.traits[p[2]]

C15_MergedTraitList ==
    LET T == MergedTraits
        N == normalizedComponents(options.components)
    IN  /\ \A i, j \in 1..Len(T) : i # j => T[i].name # T[j].name
        /\ T[1].type = "select" /\ T[1].name = "component"
        /\ T[1].options =
                [i \in 1..Len(options.components) |->
                    [id |-> options.components[i].name,
                     name |-> options.components[i].name]]
        /\ \A i \in 2..Len(T) :
                /\ Declarations(T[i].name) # {}
                /\ T[i] = FirstDeclaration(T[i].name)
        /\ \A d \in 1..Len(N) :
                N[d].value.hasTraits =>
                    \A t \in 1..Len(N[d].value.traits) :
                        \E i \in 1..Len(T) : T[i].name = N[d].value.traits[t].name

C15_Witness ==
    /\ Mounted("n1")
    /\ Keys(options.components) = <<"Hero", "Button">>
    /\ Len(MergedTraits) = 4
    /\ MergedTraits[2].name = "title" /\ MergedTraits[2].label = "Title"
    /\ Button.traits[1].name = "title" /\ Button.traits[1].label = "Button Label"

(***************************************************************************)
(* C16 (SpecMap).  Normalization keeps the registered names, one            *)
(* descriptor each.  A bare component becomes a descriptor with that        *)
(* component (a bare element: the function returning it), the text traits   *)
(* title, subtitle, description in that order, no defaultProps and no       *)
(* mapProps; a descriptor is kept as it is.  The render of a node uses      *)
(* that descriptor.                                                         *)
(***************************************************************************)
C16_Normalization ==
    LET N == normalizedComponents(options.components)
    IN  /\ Keys(N) = Keys(options.components)
        /\ \A i, j \in 1..Len(N) : i # j => N[i].name # N[j].name
        /\ \A i \in 1..Len(options.components) :
                LET v == options.components[i].value
                    d == Descriptor(options.components[i].name)
                IN  IF v.kind = "config" THEN d = v
                    ELSE /\ d.kind = "config"
                         /\ d.component = IF v.kind = "renderable" THEN v.component
                                          ELSE Returning(v.component)
                         /\ d.hasTraits
                         /\ [t \in 1..Len(d.traits) |-> <<d.traits[t].type, d.traits[t].name>>]
                                = <<(<<"text", "title">>), (<<"text", "subtitle">>),
                                    (<<"text", "description">>)>>
                         /\ \A t \in 1..Len(d.traits) : d.traits[t].def = Undef
                         /\ ~d.hasDefaultProps
                         /\ d.mapProps.kind = "none"
        /\ \A n \in Nodes :
                (Mounted(n) /\ Registered(ResolvedName(n)))
                => LET v == Lookup(options.components, ResolvedName(n)).config
                   IN  /\ v.kind = "config" => Inner(n).type = v.component
                       /\ v.kind = "renderable"
                            => /\ Inner(n).type = v.component
                               /\ Inner(n).props =
                                    Flat(Restrict(NodeAttributes(n),
                                                  PassedKeys(NodeAttributes(n))))

C16_Witness ==
    /\ Mounted("n1")
    /\ ResolvedName("n1") = "Hero"
    /\ Lookup(options.components, "Hero").config.kind = "renderable"
    /\ Descriptor("Hero").kind = "config"
    /\ Descriptor("Hero").traits[3].name = "description"
    /\ Inner("n1").type = "Hero"
    /\ \E i \in 1..Len(options.components) : options.components[i].value = Button

(***************************************************************************)
(* C17 (SpecLive).  Mapping has no hidden state: whatever renders,          *)
(* attribute changes and removals of this and of the other node came        *)
(* before, the tree a render mounts is the one computed from the node's     *)
(* attributes at that moment and the plugin options alone, by the default   *)
(* mapper, the wrapper mapper and the JSON-field mapper; and no step        *)
(* changes the options (the descriptors' defaultProps, the wrapper          *)
(* defaults, the traits the merged trait list is built from).               *)
(***************************************************************************)
\* the tree render builds for node n from its current attributes
WrappedExpected(n) == wrapWithProviders(options, ExpectedElement(n), ResolvedName(n))

RenderedFromAttributesAlone ==
    \A n \in Nodes :
        (JustRendered(n) /\ last.rendered)
        => /\ Mounted(n)
           /\ Content(n) = WrappedExpected(n)
           /\ Descriptor(ResolvedName(n)).mapProps.kind \in {"wrapper", "json"}
                => Inner(n).props =
                        CallMapProps(Descriptor(ResolvedName(n)).mapProps, NodeAttributes(n))

C17_NoHiddenState ==
    /\ []RenderedFromAttributesAlone
    /\ [][options' = options]_vars

C17_Witness ==
    /\ JustRendered("n1") /\ last.rendered /\ ~last.created
    /\ Len(roots["n1"]) = 2 /\ ~roots["n1"][1].live
    /\ Len(roots["n2"]) = 2 /\ Mounted("n2")
    /\ ResolvedName("n1") = "Panel"
    /\ "title" \notin DOMAIN attrs["n1"]
    /\ "data" \notin DOMAIN attrs["n1"]
    /\ Inner("n1").props.fields["title"] = Num("1")
    /\ "data" \notin DOMAIN Inner("n1").props.fields

(***************************************************************************)
(* C18 (Spec).  The root handle of a node is owned by that node: a hook     *)
(* call or an attribute change of one node leaves the handle and the        *)
(* roots of every other node as they are (none created, rendered into or    *)
(* unmounted), and its subscriptions too.                                   *)
(***************************************************************************)
C18_RootOwnedByNode ==
    [][\A m \in Nodes :
            m # last'.node
            => /\ roots'[m] = roots[m]
               /\ rootRef'[m] = rootRef[m]
               /\ subs'[m] = subs[m]]_vars

C18_Witness ==
    /\ last.node = "n1" /\ last.hook = "removed" /\ last.unmounted
    /\ Len(roots["n1"]) = 2 /\ ~roots["n1"][1].live /\ ~roots["n1"][2].live
    /\ Mounted("n2") /\ Len(roots["n2"]) = 1
    /\ roots["n2"][1].live /\ roots["n2"][1].unmounts = 0
    /\ Content("n2") # << >>

(***************************************************************************)
(* C19 (Spec).  On a view that lacks its el object, its model object with   *)
(* a getAttributes function, or its listenTo function, no hook has an       *)
(* effect: init subscribes nothing, render resolves no component, creates   *)
(* no root and mounts nothing, removed unmounts nothing.                    *)
(***************************************************************************)
\* the view object has the three capabilities
Capable(obj) == obj.el = "element" /\ obj.model = "model" /\ obj.listenTo = "function"

C19_MalformedViewIsInert ==
    \A n \in Nodes :
        ~Capable(host[n])
        => /\ subs[n] = 0
           /\ rootRef[n] = 0
           /\ roots[n] = << >>
           /\ (last.node = n /\ last.hook \in {"init", "render", "removed"})
                => /\ last.name = "" /\ ~last.found /\ last.mapCalls = 0
                   /\ ~last.created /\ ~last.rendered /\ ~last.unmounted

C19_Witness ==
    /\ host["n1"] = View("element", "plain", "function")
    /\ last.node = "n1" /\ last.hook = "render"
    /\ roots["n1"] = << >> /\ subs["n1"] = 0
    /\ Capable(host["n2"]) /\ Mounted("n2") /\ subs["n2"] = 1

(***************************************************************************)
(* C20 (SpecLive).  On an initialised, well-formed view every attribute     *)
(* change runs render on the attributes as they are after the change        *)
(* (once, when init ran once).  Hence for a node that was not removed and   *)
(* whose component name is registered, the tree in its root is always the   *)
(* wrapped element computed from its current attributes; a re-render        *)
(* replaces the tree on the same root.                                      *)
(***************************************************************************)
\* removed has not unmounted a root of node n
NeverRemoved(n) == \A i \in DOMAIN roots[n] : roots[n][i].live

TreeIsCurrent ==
    \A n \in Nodes :
        (/\ subs[n] >= 1 /\ hasViewProperties(host[n])
         /\ Mounted(n) /\ NeverRemoved(n)
         /\ Registered(ResolvedName(n)))
        => Content(n) = WrappedExpected(n)

ChangeRendersCurrent ==
    \A n \in Nodes :
        (/\ attrs'[n] # attrs[n]
         /\ subs[n] >= 1 /\ hasViewProperties(host[n])
         /\ NeverRemoved(n))
        => /\ last'.node = n /\ last'.hook = "render"
           /\ last'.name = ComponentName(ToComponentAttributes(attrs'[n]),
                                         fallbackName(options))
           /\ last'.found
                => /\ last'.rendered
                   /\ rootRef'[n] # 0
                   /\ Mounted(n) => (rootRef'[n] = rootRef[n] /\ Len(roots'[n]) = Len(roots[n]))
                   /\ (~Mounted(n) /\ subs[n] = 1) => last'.created
           /\ ~last'.found => (roots'[n] = roots[n] /\ rootRef'[n] = rootRef[n])

C20_ChangeRendersCurrent ==
    /\ []TreeIsCurrent
    /\ [][ChangeRendersCurrent]_vars

C20_Witness ==
    /\ JustRendered("n1") /\ last.rendered /\ ~last.created
    /\ subs["n1"] = 1 /\ Len(roots["n1"]) = 1 /\ NeverRemoved("n1")
    /\ ResolvedName("n1") = "Table"
    /\ "data" \in DOMAIN attrs["n1"] /\ attrs["n1"]["data"] = Str("[1]")
    /\ "title" \in DOMAIN attrs["n1"] /\ attrs["n1"]["title"] = Str("x")
    /\ Inner("n1").type = "Table"
    /\ Inner("n1").props.fields["data"] = Obj("[1]")
    /\ Inner("n1").props.fields["title"] = Str("x")


(***************************************************************************)
(* Palette blocks.                                                          *)
(***************************************************************************)
\* the component name block b stands for
BlockName(b) == b.content.attributes[1].text

\* the trait defaultValues of a descriptor for the keys its defaultProps leave
\* out, the text of a json trait read as the structure it denotes
TraitDefaults(config) ==
    LET traits == IF config.hasTraits THEN config.traits ELSE << >>
        given == DOMAIN Present(DefaultsOf(config), {Undef})
        first(k) == CHOOSE i \in 1..Len(traits) :
                        /\ traits[i].name = k /\ traits[i].def # Undef
                        /\ \A j \in 1..(i - 1) :
                              ~(traits[j].name = k /\ traits[j].def # Undef)
        keys == {traits[i].name : i \in {j \in 1..Len(traits) : traits[j].def # Undef}}
                    \ given
    IN  [k \in keys |->
            IF traits[first(k)].type = "json"
            THEN LenientlyDecoded(traits[first(k)].def)
            ELSE traits[first(k)].def]

\* the default values of a descriptor: its defaultProps, then its trait defaults
BlockDefaults(config) ==
    Overlay(TraitDefaults(config), Present(DefaultsOf(config), {Undef}))

\* node n is on the canvas as block b made it, and has been rendered
RenderedFromBlock(n, b) ==
    /\ Mounted(n)
    /\ attrs[n] = NodeFromBlock(options, b)
    /\ Descriptor(BlockName(b)).mapProps.kind = "none"

\* C21: a node created from the palette block of a descriptor without mapProps
\* and rendered without any edit receives the descriptor's default values as they
\* were declared: the defaultProps, and for the other keys the trait defaultValue,
\* numbers, booleans and structured values included.
C21_BlockRoundTrip ==
    \A n \in Nodes : \A h \in OnSameId : \A i \in 1..Len(Blocks(options, h)) :
        LET b == Blocks(options, h)[i]
            config == Descriptor(BlockName(b))
        IN  RenderedFromBlock(n, b) =>
                Inner(n) = Element(config.component, Flat(BlockDefaults(config)))

\* the same, for the blocks all of whose default values are text under a
\* lower-case key
TextDefaultsRoundTrip ==
    \A n \in Nodes : \A h \in OnSameId : \A i \in 1..Len(Blocks(options, h)) :
        LET b == Blocks(options, h)[i]
            config == Descriptor(BlockName(b))
        IN  (/\ RenderedFromBlock(n, b)
             /\ BlockName(b) \in {"Hero", "hero", "Button", "Feed", "Note"}) =>
                Inner(n) = Element(config.component, Flat(BlockDefaults(config)))

\* the keys of a block's content, one per attribute written
ContentKeys(b) == [i \in 1..Len(b.content.attributes) |-> b.content.attributes[i].key]

\* the palette block registered under the id of name, if there is one
BlocksOf(B, name) == {i \in 1..Len(B) : B[i].id = BlockId(name)}

\* the block of the registered name stands for that name, and writes a defined,
\* non-null defaultProps value under its key
StandsFor(b, name, config) ==
    /\ "component" \in DOMAIN ParseAttributes(b.content.attributes, 1)
    /\ ParseAttributes(b.content.attributes, 1)["component"] = Str(name)
    /\ \A k \in DOMAIN Present(DefaultsOf(config), {Undef, Null}) :
          \E i \in 1..Len(b.content.attributes) :
             b.content.attributes[i] = Attr(k, StringOf(config.defaultProps[k]).v)

\* C22: installing the plugin registers exactly one palette block per registered
\* component: distinct names get distinct block ids, each block's content carries
\* component equal to its own name, no attribute key is written twice, and a
\* defaultProps value is the one written when a trait defaultValue has the same
\* name; a node created from a block names a registered component.
C22_OneBlockPerComponent ==
    LET N == normalizedComponents(options.components)
    IN  /\ \A i, j \in 1..Len(N) : i # j => BlockId(N[i].name) # BlockId(N[j].name)
        /\ \A h \in OnSameId :
              LET B == Blocks(options, h)
              IN  /\ Len(B) = Len(N)
                  /\ \A i \in 1..Len(N) :
                        \E j \in BlocksOf(B, N[i].name) :
                           StandsFor(B[j], N[i].name, N[i].value)
                  /\ \A j \in 1..Len(B) :
                        \A x, y \in 1..Len(ContentKeys(B[j])) :
                           x # y => ContentKeys(B[j])[x] # ContentKeys(B[j])[y]
        /\ \A n \in Nodes :
              (last.hook = "drop" /\ last.node = n) =>
                 \E h \in OnSameId : \E i \in 1..Len(N) :
                    \E j \in BlocksOf(Blocks(options, h), N[i].name) :
                       /\ attrs[n] = NodeFromBlock(options, Blocks(options, h)[j])
                       /\ attrs[n]["component"] = Str(N[i].name)

\* the registered names are distinct once lower-cased
CaseDistinctNames ==
    LET N == normalizedComponents(options.components)
    IN  \A i, j \in 1..Len(N) :
           i # j => toLowerCase(N[i].name) # toLowerCase(N[j].name)

\* the same, for the registries whose names do not differ in case only
PaletteOfCaseDistinctNames == CaseDistinctNames => C22_OneBlockPerComponent
====
